---------------------------- MODULE Spec2Model ----------------------------
(***************************************************************************)
(* Boundary-aware video captioning network (src/model.py): the binary gate *)
(* of the boundary detector, the hierarchical encoder loop, the decoder    *)
(* loop and the token-to-text conversion.                                  *)
(*                                                                         *)
(* Numbers in [0,1] (sigmoid outputs, thresholds, the teacher forcing      *)
(* ratio, random draws) are fixed point with unit One = 2 * Half, so that  *)
(* 0.5 is the integer Half.  Tensors produced by the learned layers of the *)
(* tensor library (Linear, LSTMCell, GRUCell, Embedding, Dropout) are      *)
(* terms over uninterpreted function symbols: two tensors are equal in the *)
(* model only when they are equal for every value of the parameters.  The  *)
(* all-zero tensor is the term Zero.                                       *)
(***************************************************************************)
EXTENDS Integers, Sequences, FiniteSets, TLC

\* ------------------------------------------------------------- bounds --
\* resolution of the fixed-point interval [0,1]: 0.5 is Half, 1.0 is One
Half == 1
\* number of examples in a batch
BatchSize == 2
\* max_frames of the Encoder
MaxFrames == 3
\* max_words of the Decoder
MaxWords == 2
\* largest token id that occurs in a caption tensor
MaxToken == 1
\* the id of <pad>
Pad == 0
\* number of ids of the vocabulary
VocabSize == 4
\* longest token list given to decode_tokens
MaxLen == 4

One == 2 * Half
Grid == 0..One
Batch == 1..BatchSize
None == "None"
Unbound == "Unbound"

VARIABLES
    pc,            \* which call is running, and where it is
    training,      \* nn.Module.training of the module being called
    thrs,          \* ctx.thrs of the last BinaryGate.forward
    gate_z,        \* BinaryGate.forward: values of the argument input
    gate_inplace,  \* BinaryGate.forward: the argument inplace
    gate_input,    \* the tensor passed as input, after the call
    gate_mid,      \* output after the first masked assignment
    gate_output,   \* the tensor BinaryGate.forward returns
    grad_output,   \* BinaryGate.backward: the incoming gradient
    grad_input,    \* BinaryGate.backward: the returned triple
    i,             \* loop index of the running forward
    lstm1_h,       \* Encoder.forward: low-level hidden state, per example
    lstm1_c,       \* Encoder.forward: low-level cell state, per example
    lstm2_h,       \* Encoder.forward: high-level hidden state, per example
    lstm2_c,       \* Encoder.forward: high-level cell state, per example
    s,             \* Encoder.forward: the gate of the last step, per example
    pre_h,         \* lstm1_h as it was when the last step began
    pre_c,         \* lstm1_c as it was when the last step began
    bd_h,          \* the hidden state the last step handed to self.bd
    cell_h,        \* lstm1_h of the last step after lstm1_drop
    cell_c,        \* lstm1_c of the last step as lstm1_cell returned it
    lstm2_input,   \* lstm2_input of the last step
    s_hist,        \* the gates of this call, one tensor per step
    alt,           \* a second run of the same call on the same frames,
                   \* thresholds and low-level parameters whose high-level
                   \* state is arbitrary
    enc_out,       \* what Encoder.forward returned
    captions,      \* Decoder.forward: NoCaptions, or a tensor with width columns
    teacher_forcing_ratio,
    infer,         \* Decoder.forward: captions is None
    gru_h,         \* Decoder.forward: the GRU hidden state
    vm,            \* Decoder.forward: v2m(video_encoded)
    word,          \* Decoder.forward: embedding of the next input word
    word_id,       \* Decoder.forward: the word chosen by the last step
    outputs,       \* Decoder.forward: the list of per-step outputs
    col,           \* captions[:, i] as line 231 last read it
    broke,         \* the loop was left by the break of line 234
    cap_reads,     \* the uses this call made of entries of captions
    pad_passed,    \* a step was computed for a column that was all <pad>
    dec_err,       \* the error that ended Decoder.forward
    dec_out,       \* what Decoder.forward returned
    prev_call,     \* the call that returned before the current one
    tokens,        \* Decoder.decode_tokens: the argument
    end_id,        \* self.vocab('<end>')
    words,         \* Decoder.decode_tokens: the list words
    caption        \* what Decoder.decode_tokens returned

gateVars == <<thrs, gate_z, gate_inplace, gate_input, gate_mid, gate_output,
              grad_output, grad_input>>
gateArgs == <<gate_z, gate_inplace, gate_input, gate_mid, gate_output,
              grad_output, grad_input>>
encVars == <<lstm1_h, lstm1_c, lstm2_h, lstm2_c, s, pre_h, pre_c, bd_h, cell_h,
             cell_c, lstm2_input, s_hist, alt, enc_out>>
decVars == <<captions, teacher_forcing_ratio, infer, gru_h, vm, word, word_id,
             outputs, col, broke, cap_reads, pad_passed, dec_err, dec_out>>
tokVars == <<tokens, end_id, words, caption>>
vars == <<pc, training, i, gateVars, encVars, decVars, prev_call, tokVars>>

\* ------------------------------------------------------ BinaryGate --
\* output[output > ctx.thrs] = 1
SetOnesGe(t, th) == [k \in DOMAIN t |-> IF t[k] >= th THEN One ELSE t[k]]
SetOnes(t, th) == [k \in DOMAIN t |-> IF t[k] > th THEN One ELSE t[k]]

\* output[output <= ctx.thrs] = 0
SetZeros(t, th) == [k \in DOMAIN t |-> IF t[k] <= th THEN 0 ELSE t[k]]

\* ctx.thrs = random.uniform(0, 1) if training else 0.5
\* (random.uniform(a, b) is documented to return a value N with a <= N <= b)
ThresholdsAnyMode(tr) == Grid
Thresholds(tr) == IF tr THEN Grid ELSE {Half}

\* the two masked assignments, in the order of the code
BinaryGateForward(t, th) == SetZeros(SetOnes(t, th), th)

\* return grad_output, None, None
BinaryGateBackwardGated(ctx, g) ==
    <<[k \in DOMAIN g |-> IF ctx.thrs = Half THEN g[k] ELSE 0], None, None>>
BinaryGateBackward(ctx, g) == <<g, None, None>>

\* sample gradients flowing into backward
GradVals == {-1, 1}

EncUnbound ==
    /\ lstm1_h = Unbound /\ lstm1_c = Unbound
    /\ lstm2_h = Unbound /\ lstm2_c = Unbound
    /\ s = Unbound /\ pre_h = Unbound /\ pre_c = Unbound /\ bd_h = Unbound
    /\ cell_h = Unbound /\ cell_c = Unbound /\ lstm2_input = Unbound
    /\ s_hist = <<>> /\ alt = Unbound /\ enc_out = Unbound

\* captions is None
NoCaptions == [tensor |-> FALSE, width |-> 0]

DecUnbound ==
    /\ captions = NoCaptions /\ teacher_forcing_ratio = 0 /\ infer = TRUE
    /\ gru_h = Unbound /\ vm = Unbound /\ word = Unbound /\ word_id = Unbound
    /\ outputs = <<>> /\ col = Unbound /\ broke = FALSE /\ cap_reads = {}
    /\ pad_passed = FALSE /\ dec_err = None /\ dec_out = Unbound

\* the call that has returned, when the next one begins
Returned ==
    IF pc = "enc_done" THEN "enc"
    ELSE IF pc \in {"dec_done", "dec_error"} THEN "dec"
    ELSE "none"

\* the locals of an earlier call are gone when a call begins
EncWipe ==
    /\ lstm1_h' = Unbound /\ lstm1_c' = Unbound
    /\ lstm2_h' = Unbound /\ lstm2_c' = Unbound
    /\ s' = Unbound /\ pre_h' = Unbound /\ pre_c' = Unbound /\ bd_h' = Unbound
    /\ cell_h' = Unbound /\ cell_c' = Unbound /\ lstm2_input' = Unbound
    /\ s_hist' = <<>> /\ alt' = Unbound /\ enc_out' = Unbound
DecWipe ==
    /\ captions' = NoCaptions /\ teacher_forcing_ratio' = 0 /\ infer' = TRUE
    /\ gru_h' = Unbound /\ vm' = Unbound /\ word' = Unbound /\ word_id' = Unbound
    /\ outputs' = <<>> /\ col' = Unbound /\ broke' = FALSE /\ cap_reads' = {}
    /\ pad_passed' = FALSE /\ dec_err' = None /\ dec_out' = Unbound

Init ==
    /\ pc = "idle"
    /\ training = FALSE
    /\ i = 0
    /\ prev_call = "none"
    /\ EncUnbound
    /\ DecUnbound
    /\ tokens = <<>> /\ end_id = 0 /\ words = <<>> /\ caption = <<>>
    /\ thrs = Unbound
    /\ gate_z = Unbound
    /\ gate_inplace = FALSE
    /\ gate_input = Unbound
    /\ gate_mid = Unbound
    /\ gate_output = Unbound
    /\ grad_output = Unbound
    /\ grad_input = Unbound

\* BinaryGate.forward(ctx, input, training, inplace).  A call leaves the
\* same state whatever the state it starts in, so the calls that follow a
\* backward pass are left out: they reach no other state than those that
\* follow a forward pass.
GateForward ==
    \E z \in [Batch -> Grid], tr \in BOOLEAN, inpl \in BOOLEAN :
      \E th \in Thresholds(tr) :
        /\ pc \in {"idle", "gate"}
        /\ pc' = "gate"
        /\ training' = tr
        /\ gate_z' = z
        /\ gate_inplace' = inpl
        /\ thrs' = th
        /\ gate_mid' = SetOnes(z, th)
        /\ gate_output' = BinaryGateForward(z, th)
        /\ gate_input' = IF inpl THEN BinaryGateForward(z, th) ELSE z
        /\ grad_output' = Unbound
        /\ grad_input' = Unbound
        /\ UNCHANGED <<i, encVars, decVars, prev_call, tokVars>>

\* BinaryGate.backward(ctx, grad_output), after a forward call
GateBackward ==
    /\ pc = "gate"
    /\ pc' = "gate_back"
    /\ \E g \in [Batch -> GradVals] :
        /\ grad_output' = g
        /\ grad_input' = BinaryGateBackward([thrs |-> thrs], g)
    /\ UNCHANGED <<training, thrs, gate_z, gate_inplace, gate_input,
                   gate_mid, gate_output, i, encVars, decVars, prev_call,
                   tokVars>>

GateNext == GateForward \/ GateBackward

SpecGate == Init /\ [][GateNext]_vars


\* --------------------------------------------------------------- terms --
Zero == <<"zero", <<>>>>
Term(f, args) == <<f, args>>

\* video_feats[b, idx, :]
Frame(b, idx) == Term("video_feats", <<b, idx>>)
\* the frame tensor of a call, video_feats
VideoFeats == [b \in Batch |-> [idx \in 0..(MaxFrames - 1) |-> Frame(b, idx)]]

\* nn.Dropout: the identity in evaluation mode; in training mode a masked,
\* rescaled copy (of the zero tensor: the zero tensor)
Dropout(layer, idx, tr, t) ==
    IF tr /\ t # Zero THEN Term("dropout", <<layer, idx, t>>) ELSE t

\* nn.LSTMCell(x, (h, c)) -> (h, c)
LstmH(cell, x, h, c) == Term("lstm_h", <<cell, x, h, c>>)
LstmC(cell, x, h, c) == Term("lstm_c", <<cell, x, h, c>>)

\* t * k for a tensor t of finite values and a number k of [0,1]
Mul(t, k) ==
    IF k = One THEN t
    ELSE IF k = 0 \/ t = Zero THEN Zero
    ELSE Term("mul", <<t, k>>)

\* ------------------------------------------------------------- Encoder --
\* Encoder._init_lstm_state: one zero tensor (each call makes two of them)
InitLstmStateUninitialized(d) == [b \in DOMAIN d |-> Term("uninitialized", <<>>)]
InitLstmState(d) == [b \in DOMAIN d |-> Zero]

\* v[:, idx, :] of example b: frame_drop(frame_embed(video_feats))
V(b, idx, tr) ==
    Dropout("frame_drop", idx, tr, Term("frame_embed", <<Frame(b, idx)>>))

\* the hidden state line 170 hands to self.bd: lstm1_h before line 172
BdInput(before, after) == before

\* lstm1_h = lstm1_h * (1 - s)
ResetHByGate(h, sb) == Mul(h, sb)
ResetH(h, sb) == Mul(h, One - sb)

\* lstm1_c = lstm1_c * (1 - s)
ResetCForgotten(c, sb) == c
ResetC(c, sb) == Mul(c, One - sb)

\* return lstm1_h
EncoderReturnHigh(h1, h2) == h2
EncoderReturn(h1, h2) == h1

\* lines 172-173: the low-level cell and its dropout
CellH(st, idx, tr) ==
    [b \in Batch |->
        Dropout("lstm1_drop", idx, tr,
                LstmH("lstm1_cell", V(b, idx, tr), st.lstm1_h[b], st.lstm1_c[b]))]
CellC(st, idx, tr) ==
    [b \in Batch |->
        LstmC("lstm1_cell", V(b, idx, tr), st.lstm1_h[b], st.lstm1_c[b])]

\* the arguments of self.bd at line 170, per example
BdArgs(st, idx, tr) ==
    [b \in Batch |->
        <<V(b, idx, tr), BdInput(st.lstm1_h[b], CellH(st, idx, tr)[b])>>]

\* lines 172-180 of one iteration, given the gate sg line 170 produced
EncBody(st, idx, sg, tr) ==
    LET h == CellH(st, idx, tr)
        c == CellC(st, idx, tr)
        inp == [b \in Batch |-> Mul(h[b], sg[b])]
    IN  [lstm1_h |-> [b \in Batch |-> ResetH(h[b], sg[b])],
         lstm1_c |-> [b \in Batch |-> ResetC(c[b], sg[b])],
         lstm2_h |-> [b \in Batch |->
                        Dropout("lstm2_drop", idx, tr,
                                LstmH("lstm2_cell", inp[b],
                                      st.lstm2_h[b], st.lstm2_c[b]))],
         lstm2_c |-> [b \in Batch |->
                        LstmC("lstm2_cell", inp[b], st.lstm2_h[b], st.lstm2_c[b])],
         cell_h |-> h, cell_c |-> c, lstm2_input |-> inp]

\* the locals of the running call as one record
EncState == [lstm1_h |-> lstm1_h, lstm1_c |-> lstm1_c,
             lstm2_h |-> lstm2_h, lstm2_c |-> lstm2_c]

\* an arbitrary high-level state
Arbitrary(idx) ==
    [lstm2_h |-> [b \in Batch |-> Term("arbitrary_h", <<b, idx>>)],
     lstm2_c |-> [b \in Batch |-> Term("arbitrary_c", <<b, idx>>)]]

\* Encoder.forward, lines 159-167: the state before the first iteration
EncStart ==
    /\ pc \notin {"enc", "dec"}
    /\ pc' = "enc"
    /\ DecWipe
    /\ prev_call' = Returned
    /\ UNCHANGED tokVars
    /\ training' \in BOOLEAN
    /\ i' = 0
    /\ lstm1_h' = InitLstmState(VideoFeats)
    /\ lstm1_c' = InitLstmState(VideoFeats)
    /\ lstm2_h' = InitLstmState(VideoFeats)
    /\ lstm2_c' = InitLstmState(VideoFeats)
    /\ alt' = [lstm1_h |-> InitLstmState(VideoFeats),
               lstm1_c |-> InitLstmState(VideoFeats),
               lstm2_h |-> Arbitrary(0).lstm2_h,
               lstm2_c |-> Arbitrary(0).lstm2_c,
               s |-> Unbound, out |-> Unbound]
    /\ s' = Unbound /\ pre_h' = Unbound /\ pre_c' = Unbound /\ bd_h' = Unbound
    /\ cell_h' = Unbound /\ cell_c' = Unbound /\ lstm2_input' = Unbound
    /\ s_hist' = <<>>
    /\ enc_out' = Unbound
    /\ thrs' = Unbound
    /\ UNCHANGED gateArgs

\* what line 170 can return: the gate of any detector output z in [0,1]^batch
\* under any threshold the mode allows (BoundaryDetector.forward)
GateOutputs(tr) ==
    {BinaryGateForward(z, th) : z \in [Batch -> Grid], th \in Thresholds(tr)}

\* one iteration of the loop of lines 169-180
EncStep ==
    /\ pc = "enc"
    /\ i < MaxFrames
    /\ \E sg \in GateOutputs(training) :
        LET new == EncBody(EncState, i, sg, training)
            \* the second run enters every iteration with an arbitrary
            \* high-level state; its detector returns what the first run's
            \* returned wherever it is given the same arguments
            ast == [alt EXCEPT !.lstm2_h = Arbitrary(i).lstm2_h,
                               !.lstm2_c = Arbitrary(i).lstm2_c]
            args == BdArgs(EncState, i, training)
            aargs == BdArgs(ast, i, training)
            differ == {b \in Batch : aargs[b] # args[b]}
        IN  \E w \in [differ -> {0, One}] :
              LET asg == [b \in Batch |-> IF b \in differ THEN w[b] ELSE sg[b]]
                  anew == EncBody(ast, i, asg, training)
              IN  /\ s' = sg
                  /\ pre_h' = lstm1_h
                  /\ pre_c' = lstm1_c
                  /\ bd_h' = [b \in Batch |-> args[b][2]]
                  /\ lstm1_h' = new.lstm1_h
                  /\ lstm1_c' = new.lstm1_c
                  /\ lstm2_h' = new.lstm2_h
                  /\ lstm2_c' = new.lstm2_c
                  /\ cell_h' = new.cell_h
                  /\ cell_c' = new.cell_c
                  /\ lstm2_input' = new.lstm2_input
                  /\ s_hist' = Append(s_hist, sg)
                  /\ alt' = [lstm1_h |-> anew.lstm1_h, lstm1_c |-> anew.lstm1_c,
                             lstm2_h |-> anew.lstm2_h, lstm2_c |-> anew.lstm2_c,
                             s |-> asg, out |-> Unbound]
    /\ i' = i + 1
    /\ UNCHANGED <<pc, training, thrs, enc_out, gateArgs, decVars, prev_call,
                   tokVars>>

\* line 182
EncReturn ==
    /\ pc = "enc"
    /\ i = MaxFrames
    /\ pc' = "enc_done"
    /\ enc_out' = EncoderReturn(lstm1_h, lstm2_h)
    /\ alt' = [alt EXCEPT !.out = EncoderReturn(alt.lstm1_h, alt.lstm2_h)]
    /\ UNCHANGED <<decVars, tokVars, prev_call>>
    /\ UNCHANGED <<training, i, thrs, gateArgs, lstm1_h, lstm1_c, lstm2_h,
                   lstm2_c, s, pre_h, pre_c, bd_h, cell_h, cell_c, lstm2_input,
                   s_hist>>


\* ------------------------------------------------------------- Decoder --
\* the tensors of the decoder are terms for the whole batch
VideoEncoded == Term("video_encoded", <<>>)

\* Decoder._init_gru_state
InitGruState(d) == Zero

\* a (batch, 1) tensor filled with self.vocab('<start>')
StartWord == Term("fill", <<"<start>">>)

\* word_drop(word_embed(word_id)); idx numbers the uses of word_drop
Embed(tr, wid, idx) == Dropout("word_drop", idx, tr, Term("word_embed", <<wid>>))

\* lines 235-238: wm = w2m(word); m = vm + wm; gru_cell; gru_drop
GruStep(tr, idx, vmt, w, h) ==
    Dropout("gru_drop", idx, tr,
            Term("gru_cell", <<Term("add", <<vmt, Term("w2m", <<w>>)>>), h>>))

\* word_restore(gru_h) and word_logits.max(1)[1]
Logits(h) == Term("word_restore", <<h>>)
Argmax(l) == Term("argmax", <<l>>)

\* captions[:, idx] as a word id tensor
CaptionColumn(idx) == Term("captions", <<idx>>)

\* captions[:, i].data.sum()
RECURSIVE SumTo(_, _)
SumTo(c, n) == IF n = 0 THEN 0 ELSE c[n] + SumTo(c, n - 1)

\* line 231: captions[:, i].data.sum() == 0
AllPadFirstOnly(c) == c[1] = 0
AllPad(c) == SumTo(c, BatchSize) = 0

\* line 241: not infer and (random.random() < teacher_forcing_ratio)
UseTeacherForcingLe(inf, r, ratio) == ~inf /\ r <= ratio
UseTeacherForcing(inf, r, ratio) == ~inf /\ r < ratio

\* the caption arguments: None, or a tensor of token ids with `width`
\* columns (fewer than max_words: a malformed tensor)
CaptionArgs == {NoCaptions} \cup {[tensor |-> TRUE, width |-> w] : w \in 0..MaxWords}
Columns == [Batch -> 0..MaxToken]

\* Decoder.forward, lines 216-229
DecStart ==
    /\ pc \notin {"enc", "dec"}
    /\ pc' = "dec"
    /\ training' \in BOOLEAN
    /\ captions' \in CaptionArgs
    /\ teacher_forcing_ratio' \in Grid
    /\ infer' = (captions' = NoCaptions)
    /\ gru_h' = InitGruState(VideoEncoded)
    /\ outputs' = <<>>
    /\ word_id' = StartWord
    /\ word' = Embed(training', StartWord, 0)
    /\ vm' = Term("v2m", <<VideoEncoded>>)
    /\ i' = 0
    /\ col' = Unbound /\ broke' = FALSE /\ cap_reads' = {}
    /\ pad_passed' = FALSE /\ dec_err' = None /\ dec_out' = Unbound
    /\ EncWipe
    /\ prev_call' = Returned
    /\ UNCHANGED <<thrs, gateArgs, tokVars>>

\* line 231 on a caption tensor that has no column i
DecStepIndexError ==
    /\ pc = "dec" /\ ~broke /\ i < MaxWords
    /\ ~infer /\ i >= captions.width
    /\ pc' = "dec_error"
    /\ dec_err' = "caption"
    /\ UNCHANGED <<tokVars, prev_call>>
    /\ UNCHANGED <<training, i, gateVars, encVars, captions,
                   teacher_forcing_ratio, infer, gru_h, vm, word, word_id,
                   outputs, col, broke, cap_reads, pad_passed, dec_out>>

\* lines 231-234: the column is read and the loop is left
DecStepBreak ==
    /\ pc = "dec" /\ ~broke /\ i < MaxWords
    /\ ~infer /\ i < captions.width
    /\ \E c \in Columns :
        /\ AllPad(c)
        /\ col' = c
    /\ cap_reads' = cap_reads \cup {"stop"}
    /\ broke' = TRUE
    /\ UNCHANGED tokVars
    /\ UNCHANGED <<pc, training, i, gateVars, encVars, captions,
                   teacher_forcing_ratio, infer, gru_h, vm, word, word_id,
                   outputs, pad_passed, dec_err, dec_out, prev_call>>

\* lines 231-256: one full iteration
DecStep ==
    /\ pc = "dec" /\ ~broke /\ i < MaxWords
    /\ infer \/ i < captions.width
    /\ \E c \in (IF infer THEN {col} ELSE {x \in Columns : ~AllPad(x)}),
          r \in (IF infer THEN {0} ELSE 0..(One - 1)) :
        LET h == GruStep(training, i, vm, word, gru_h)
            tf == UseTeacherForcing(infer, r, teacher_forcing_ratio)
            wid == IF tf THEN CaptionColumn(i) ELSE Argmax(Logits(h))
        IN  /\ col' = c
            /\ cap_reads' = cap_reads
                               \cup (IF infer THEN {} ELSE {"stop"})
                               \cup (IF tf THEN {"teacher"} ELSE {})
            /\ pad_passed' = (pad_passed
                               \/ (~infer /\ \A b \in Batch : c[b] = Pad))
            /\ gru_h' = h
            /\ word_id' = wid
            /\ outputs' = Append(outputs, IF infer THEN wid ELSE Logits(h))
            /\ word' = Embed(training, wid, i + 1)
    /\ i' = i + 1
    /\ UNCHANGED tokVars
    /\ UNCHANGED <<pc, training, gateVars, encVars, captions,
                   teacher_forcing_ratio, infer, vm, broke, dec_err, dec_out,
                   prev_call>>

\* line 260 when no step was made: torch.cat of an empty list raises
DecReturnEmpty ==
    /\ pc = "dec" /\ (broke \/ i = MaxWords)
    /\ outputs = <<>>
    /\ pc' = "dec_error"
    /\ dec_err' = "cat"
    /\ UNCHANGED <<tokVars, prev_call>>
    /\ UNCHANGED <<training, i, gateVars, encVars, captions,
                   teacher_forcing_ratio, infer, gru_h, vm, word, word_id,
                   outputs, col, broke, cap_reads, pad_passed, dec_out>>

\* lines 260-261
DecReturn ==
    /\ pc = "dec" /\ (broke \/ i = MaxWords)
    /\ outputs # <<>>
    /\ pc' = "dec_done"
    /\ dec_out' = Term("cat", outputs)
    /\ UNCHANGED <<tokVars, prev_call>>
    /\ UNCHANGED <<training, i, gateVars, encVars, captions,
                   teacher_forcing_ratio, infer, gru_h, vm, word, word_id,
                   outputs, col, broke, cap_reads, pad_passed, dec_err>>

\* the steps of Decoder.sample, the call with captions None: always
\* max_words greedy steps from the zero state
RECURSIVE SampleRun(_, _, _, _, _)
SampleRun(tr, k, h, w, outs) ==
    IF k = MaxWords THEN outs
    ELSE LET h2 == GruStep(tr, k, Term("v2m", <<VideoEncoded>>), w, h)
             wid == Argmax(Logits(h2))
         IN  SampleRun(tr, k + 1, h2, Embed(tr, wid, k + 1), Append(outs, wid))
SampleOut(tr) == Term("cat", SampleRun(tr, 0, Zero, Embed(tr, StartWord, 0), <<>>))

\* Encoder.forward from the zero state for given gates
RECURSIVE EncRun(_, _, _, _)
EncRun(st, hist, k, tr) ==
    IF k > Len(hist) THEN st
    ELSE EncRun(EncBody(st, k - 1, hist[k], tr), hist, k + 1, tr)
EncPure(hist, tr) ==
    EncRun([lstm1_h |-> [b \in Batch |-> Zero], lstm1_c |-> [b \in Batch |-> Zero],
            lstm2_h |-> [b \in Batch |-> Zero], lstm2_c |-> [b \in Batch |-> Zero]],
           hist, 1, tr).lstm1_h

Next ==
    \/ EncStart \/ EncStep \/ EncReturn
    \/ DecStart \/ DecStepIndexError \/ DecStepBreak \/ DecStep
    \/ DecReturnEmpty \/ DecReturn
Spec == Init /\ [][Next]_vars

\* ------------------------------------------------------- decode_tokens --
\* strings are sequences of characters
Space == <<" ">>

\* self.vocab.idx2word: the word of each id (ids count from 0)
Vocabulary ==
    << <<"a">>, <<"d", "o", "g">>, <<"r", "u", "n">>, <<"o", "n">>,
       <<"m", "a", "n">>, <<"i", "s">> >>
Idx2Word(id) == Vocabulary[id + 1]
TokenIds == 0..(VocabSize - 1)

\* the loop of lines 273-278 from position k on
RECURSIVE DecodeWordsSkipEnd(_, _, _, _)
DecodeWordsSkipEnd(toks, k, end, ws) ==
    IF k > Len(toks) THEN ws
    ELSE IF toks[k] = end THEN DecodeWordsSkipEnd(toks, k + 1, end, ws)
    ELSE DecodeWordsSkipEnd(toks, k + 1, end, Append(ws, Idx2Word(toks[k])))
RECURSIVE DecodeWords(_, _, _, _)
DecodeWords(toks, k, end, ws) ==
    IF k > Len(toks) THEN ws
    ELSE IF toks[k] = end THEN ws
    ELSE DecodeWords(toks, k + 1, end, Append(ws, Idx2Word(toks[k])))

\* sep.join(ws)
RECURSIVE Join(_, _)
Join(sep, ws) ==
    IF ws = <<>> THEN <<>>
    ELSE IF Len(ws) = 1 THEN ws[1]
    ELSE ws[1] \o sep \o Join(sep, Tail(ws))

\* the token lists decode_tokens is given
RECURSIVE SeqsUpTo(_, _)
SeqsUpTo(S, n) ==
    IF n = 0 THEN {<<>>}
    ELSE LET shorter == SeqsUpTo(S, n - 1)
         IN  shorter \cup {Append(q, x) : q \in {t \in shorter : Len(t) = n - 1}, x \in S}

TokInit ==
    /\ pc = "idle" /\ training = FALSE /\ i = 0 /\ prev_call = "none"
    /\ thrs = Unbound /\ gate_z = Unbound /\ gate_inplace = FALSE
    /\ gate_input = Unbound /\ gate_mid = Unbound /\ gate_output = Unbound
    /\ grad_output = Unbound /\ grad_input = Unbound
    /\ EncUnbound
    /\ DecUnbound
    /\ tokens \in SeqsUpTo(TokenIds, MaxLen)
    /\ end_id \in TokenIds
    /\ words = <<>>
    /\ caption = <<>>

\* Decoder.decode_tokens(tokens)
DecodeTokens ==
    /\ pc = "idle"
    /\ pc' = "decoded"
    /\ words' = DecodeWords(tokens, 1, end_id, <<>>)
    /\ caption' = Join(Space, DecodeWords(tokens, 1, end_id, <<>>))
    /\ UNCHANGED <<training, i, gateVars, encVars, decVars, prev_call,
                   tokens, end_id>>

SpecTok == TokInit /\ [][DecodeTokens]_vars

\* ------------------------------------------------------------ claims --

\* C1: for every z in [0,1], in both modes and for every threshold, each
\* element of the gate's output is exactly 0 or exactly 1: 1 when
\* z > threshold and 0 when z <= threshold; no element set to 1 by the
\* first assignment is reset to 0 by the second.
C1_GateOutputBinary ==
    pc \in {"gate", "gate_back"} =>
        \A k \in Batch :
            /\ gate_output[k] \in {0, One}
            /\ (gate_z[k] > thrs) => gate_output[k] = One
            /\ (gate_z[k] <= thrs) => gate_output[k] = 0
            /\ (gate_mid[k] = One /\ gate_z[k] > thrs) => gate_output[k] = One

\* a training call with the threshold at an element's value: that element
\* gives 0 while a larger one gives 1
C1_Witness ==
    /\ pc = "gate"
    /\ training
    /\ \E j, k \in Batch :
        /\ gate_z[j] = thrs /\ gate_output[j] = 0
        /\ gate_z[k] > thrs /\ gate_output[k] = One

\* C6: for every step t and example, the low-level state carried into step
\* t+1 is decided by the gate s_t: all-zero hidden and cell state when
\* s_t = 1, the values the low-level cell produced at step t (hidden after
\* dropout) unmodified when s_t = 0; the gate was computed from the
\* low-level hidden state as it was before the cell advanced at step t.
C6_LowLevelReset ==
    (pc \in {"enc", "enc_done"} /\ i > 0) =>
        \A b \in Batch :
            /\ cell_h[b] = Dropout("lstm1_drop", i - 1, training,
                                   LstmH("lstm1_cell", V(b, i - 1, training),
                                         pre_h[b], pre_c[b]))
            /\ cell_c[b] = LstmC("lstm1_cell", V(b, i - 1, training),
                                 pre_h[b], pre_c[b])
            /\ s[b] = One => (lstm1_h[b] = Zero /\ lstm1_c[b] = Zero)
            /\ s[b] = 0 => (lstm1_h[b] = cell_h[b] /\ lstm1_c[b] = cell_c[b])
            /\ bd_h[b] = pre_h[b]

\* between two steps of a training call, one example was reset and another
\* carries the state of a segment that is two frames long
C6_Witness ==
    /\ pc = "enc" /\ i > 1 /\ i < MaxFrames /\ training
    /\ \E a, b \in Batch :
        /\ s[a] = One /\ lstm1_h[a] = Zero /\ lstm1_c[a] = Zero
        /\ s[b] = 0 /\ pre_h[b] # Zero
        /\ lstm1_h[b] # Zero /\ lstm1_c[b] # Zero

\* C9: an example whose gate fires on the final frame gets the all-zero
\* summary vector; the summary is the low-level hidden state of the last
\* step only when the final gate is 0.
C9_FinalGateZeroesSummary ==
    pc = "enc_done" =>
        /\ i = MaxFrames
        /\ \A b \in Batch :
            /\ s[b] = One => enc_out[b] = Zero
            /\ s[b] = 0 => enc_out[b] = cell_h[b]
            /\ enc_out[b] # Zero => s[b] = 0

\* a returned summary with one example zeroed by the final gate and another
\* that kept its state
C9_Witness ==
    /\ pc = "enc_done"
    /\ \E a, b \in Batch :
        /\ s[a] = One /\ enc_out[a] = Zero /\ cell_h[a] # Zero
        /\ s[b] = 0 /\ enc_out[b] # Zero

\* the number of times the high-level cell was applied to reach a state
RECURSIVE HighSteps(_)
HighSteps(t) ==
    IF t[1] = "dropout" THEN HighSteps(t[2][3])
    ELSE IF t[1] = "lstm_h" THEN 1 + HighSteps(t[2][3])
    ELSE 0

\* C10: the high-level cell is advanced on every step with input h1 * s_t
\* (the zero vector when s_t = 0), and its state flows nowhere: a run that
\* agrees on frames, thresholds and low-level computation and differs
\* arbitrarily in high-level state has the same gates, the same low-level
\* state and returns the same summary.
C10_HighLevelStateUnobserved ==
    /\ (pc \in {"enc", "enc_done"} /\ i > 0) =>
        \A b \in Batch :
            /\ lstm2_input[b] = (IF s[b] = 0 THEN Zero ELSE cell_h[b])
            /\ HighSteps(lstm2_h[b]) = i
    /\ pc \in {"enc", "enc_done"} =>
        /\ alt.lstm1_h = lstm1_h
        /\ alt.lstm1_c = lstm1_c
        /\ alt.s = s
    /\ pc = "enc_done" => alt.out = enc_out

\* a finished call whose second run ended in another high-level state, with
\* an example whose last gate was 0 and one whose last gate was 1
C10_Witness ==
    /\ pc = "enc_done"
    /\ alt.lstm2_h # lstm2_h
    /\ \E a, b \in Batch :
        /\ s[a] = 0 /\ lstm2_input[a] = Zero
        /\ s[b] = One /\ lstm2_input[b] # Zero /\ enc_out[b] = Zero

\* C2, as amended: with captions None the call reads no caption entry
\* whatever the ratio, ends in no error and returns the max_words greedy
\* token ids of Decoder.sample; with ratio 0.0 and a caption tensor the
\* caption never becomes the next input word (the early stop test still
\* reads it).
C2_NoCaptionNoReads ==
    pc \in {"dec", "dec_done", "dec_error"} =>
        /\ infer =>
            /\ cap_reads = {}
            /\ pc # "dec_error"
            /\ pc = "dec_done" =>
                (Len(outputs) = MaxWords /\ dec_out = SampleOut(training))
        /\ teacher_forcing_ratio = 0 =>
            /\ "teacher" \notin cap_reads
            /\ i > 0 => word_id = Argmax(Logits(gru_h))

\* a call with a caption tensor and ratio 0.0 that decoded greedily, and
\* read the caption for the early stop test
C2_Witness ==
    /\ pc = "dec_done" /\ ~infer /\ teacher_forcing_ratio = 0
    /\ cap_reads = {"stop"} /\ Len(outputs) = MaxWords

\* C2, as stated: with ratio 0.0 and any caption argument the call reads
\* no caption entry, raises no error from a caption access and returns
\* what the call with captions None returns.
C2_RatioZeroIgnoresCaptions ==
    (pc \in {"dec", "dec_done", "dec_error"} /\ teacher_forcing_ratio = 0) =>
        /\ cap_reads = {}
        /\ ~(pc = "dec_error" /\ dec_err = "caption")
        /\ pc = "dec_done" => dec_out = SampleOut(training)

\* C3: decode_tokens returns the words of exactly the tokens before the
\* first <end> (all tokens when there is none), in order, joined by single
\* spaces; <end> in first position or an empty list gives the empty string.
FirstEnd(toks, end) ==
    IF \E k \in 1..Len(toks) : toks[k] = end
    THEN CHOOSE k \in 1..Len(toks) :
            toks[k] = end /\ \A j \in 1..(k - 1) : toks[j] # end
    ELSE Len(toks) + 1

\* the pieces of a string between its spaces
RECURSIVE Pieces(_, _, _)
Pieces(str, k, cur) ==
    IF k > Len(str) THEN <<cur>>
    ELSE IF str[k] = " " THEN <<cur>> \o Pieces(str, k + 1, <<>>)
    ELSE Pieces(str, k + 1, Append(cur, str[k]))

C3_DecodeTruncatesAtEnd ==
    pc = "decoded" =>
        LET n == FirstEnd(tokens, end_id)
            expected == [k \in 1..(n - 1) |-> Idx2Word(tokens[k])]
        IN  /\ words = expected
            /\ IF n = 1 THEN caption = <<>>
               ELSE Pieces(caption, 1, <<>>) = expected

\* tokens [a, dog, <end>, run] give "a dog"
C3_Witness ==
    /\ pc = "decoded"
    /\ Len(tokens) = 4 /\ tokens[3] = end_id /\ tokens[4] # end_id
    /\ tokens[1] # end_id /\ tokens[2] # end_id
    /\ caption = Idx2Word(tokens[1]) \o <<" ">> \o Idx2Word(tokens[2])
    /\ caption = <<"a", " ", "d", "o", "g">>

\* C4: at inference the threshold is always 0.5: the gate is 1 exactly
\* when the input is > 0.5 (an input of exactly 0.5 gives 0), and two
\* inference calls on the same input return the same gates; the threshold
\* is drawn anew only in training mode.
GateCalled == pc \in {"gate", "gate_back"}
C4_InferenceThresholdFixed ==
    /\ [](GateCalled /\ ~training =>
            /\ thrs = Half
            /\ \A k \in Batch :
                gate_output[k] = (IF gate_z[k] > Half THEN One ELSE 0))
    /\ [][(GateCalled /\ GateCalled' /\ ~training /\ ~training'
            /\ gate_z' = gate_z) => gate_output' = gate_output]_vars
    /\ [](GateCalled /\ thrs # Half => training)

\* an inference call with an input of exactly 0.5, which gives 0, next to
\* an input above 0.5
C4_Witness ==
    /\ GateCalled /\ ~training /\ thrs = Half
    /\ \E j, k \in Batch :
        /\ gate_z[j] = Half /\ gate_output[j] = 0
        /\ gate_z[k] > Half /\ gate_output[k] = One

\* C5: BinaryGate.backward returns the incoming gradient unchanged for the
\* input and None for the training flag and for the inplace flag, whatever
\* the threshold and mode of the forward pass.
C5_StraightThrough ==
    pc = "gate_back" =>
        /\ Len(grad_input) = 3
        /\ grad_input[1] = grad_output
        /\ grad_input[2] = None
        /\ grad_input[3] = None

\* a backward pass after a training forward pass that closed a gate: the
\* gradient of that element passes all the same
C5_Witness ==
    /\ pc = "gate_back" /\ training /\ thrs # Half
    /\ \E k \in Batch :
        gate_output[k] = 0 /\ grad_output[k] # 0 /\ grad_input[1][k] = grad_output[k]

\* C7: with a caption tensor of max_words columns of non-negative ids the
\* loop stops before step i at the first i whose column is all <pad>, and
\* never at a column with a non-pad id: the number of steps is the index of
\* the first all-pad column, or max_words if there is none; with captions
\* None it is always max_words.
LoopLeft == pc = "dec_done" \/ (pc = "dec_error" /\ dec_err = "cat")
C7_EarlyStopAtFirstAllPad ==
    /\ pc \in {"dec", "dec_done"} => Len(outputs) = i
    /\ (LoopLeft /\ infer) => (~broke /\ Len(outputs) = MaxWords)
    /\ (pc \in {"dec", "dec_done", "dec_error"} /\ ~infer
            /\ captions.width = MaxWords) =>
        /\ ~pad_passed
        /\ broke => (i < MaxWords /\ \A b \in Batch : col[b] = Pad)
        /\ LoopLeft =>
            /\ Len(outputs) = i
            /\ ~broke => i = MaxWords

\* a call that stopped at column 1 because it is all <pad>, after a column
\* 0 that was not
C7_Witness ==
    /\ pc = "dec_done" /\ ~infer /\ captions.width = MaxWords
    /\ broke /\ i = 1 /\ Len(outputs) = 1 /\ MaxWords > 1
    /\ \A b \in Batch : col[b] = Pad

=============================================================================
